---- MODULE Spec2Model ----
(***************************************************************************)
(* mongodump-parser: the archive walker of main.go (getReport,             *)
(* getCollectionMetadata, checkMagicBytes, readBSON) and the legacy        *)
(* extended-JSON special-key decoder of bsonutil.go (ParseSpecialKeys).    *)
(*                                                                         *)
(* The input is a byte-indexed stream of cells.  A cell is a byte of the   *)
(* wire form (the magic number, a length prefix, the terminator, trailing  *)
(* data) or a cell of a document's body; the first body cell carries the   *)
(* elements the body encodes, so that offsets, lengths, truncation and the *)
(* 4-byte peek are those of the wire form.                                 *)
(***************************************************************************)
EXTENDS Integers, Sequences, FiniteSets, TLC

VARIABLES
    archive,    \* what the stream was built from (never read by the walker)
    stream,     \* the bytes the input io.Reader will deliver
    greedy,     \* the input hands bufio all it has on the first fill
    pc,         \* the walker's position
    consumed,   \* bytes taken from the input io.Reader
    buffered,   \* bytes held unread in bufInput (0 before it exists)
    ops,        \* the reads and peeks performed, with the cursor of each
    header,     \* getReport's header
    mdDocs,     \* getCollectionMetadata's mdDocs
    report,     \* getReport's first result
    err,        \* getReport's second result (a chain of wrapped messages)
    errOut,     \* what was written to errOut
    decIn,      \* the decoder's argument
    decOut,     \* the decoder's result
    decPc       \* the decoder's position

vars == <<archive, stream, greedy, pc, consumed, buffered, ops, header, mdDocs,
          report, err, errOut, decIn, decOut, decPc>>

walkerVars == <<archive, stream, greedy, pc, consumed, buffered, ops, header,
                mdDocs, report, err, errOut>>

decoderVars == <<decIn, decOut, decPc>>

(***************************************************************************)
(* Values.  A bson.D is a sequence of elements [Key, Value]; a value is a  *)
(* record [t, v] of a type tag and a payload.                              *)
(***************************************************************************)
E(k, val) == [Key |-> k, Value |-> val]

Str(s) == [t |-> "string", v |-> s]

Int32(n) == [t |-> "int32", v |-> n]

Int64(n) == [t |-> "int64", v |-> n]

Doc(d) == [t |-> "document", v |-> d]

Arr(a) == [t |-> "array", v |-> a]

Max(a, b) == IF a >= b THEN a ELSE b

Min(a, b) == IF a <= b THEN a ELSE b

\* The wire size of a value's payload and of a document:
\* [4-byte length][elements...][0x00], an element being
\* [1-byte tag][key, null-terminated][payload].
RECURSIVE PayloadSize(_), ElemsSize(_)
PayloadSize(val) ==
    CASE val.t = "string" -> 4 + Len(val.v) + 1
      [] val.t = "int32" -> 4
      [] val.t = "int64" -> 8
      [] val.t \in {"document", "array"} -> 4 + ElemsSize(val.v) + 1
      [] OTHER -> 0

ElemsSize(d) ==
    IF d = <<>> THEN 0
    ELSE 1 + Len(Head(d).Key) + 1 + PayloadSize(Head(d).Value) + ElemsSize(Tail(d))

BsonSize(d) == 4 + ElemsSize(d) + 1

(***************************************************************************)
(* The stream.                                                             *)
(***************************************************************************)
Byte(n) == [k |-> "byte", n |-> n, d |-> <<>>]

BodyCell(d) == [k |-> "elems", n |-> 0, d |-> d]

ContCell == [k |-> "cont", n |-> 0, d |-> <<>>]

Bytes(ns) == [i \in 1..Len(ns) |-> Byte(ns[i])]

\* A uint32 is held as its two 16-bit halves.
U32(n) == [hi |-> n \div 65536, lo |-> n % 65536]

\* binary.LittleEndian.PutUint32: the little-endian bytes of a uint32
PutUint32(u) == <<u.lo % 256, u.lo \div 256, u.hi % 256, u.hi \div 256>>

EncodeDoc(d) ==
    Bytes(PutUint32(U32(BsonSize(d))))
        \o <<BodyCell(d)>>
        \o [i \in 1..(BsonSize(d) - 5) |-> ContCell]

RECURSIVE EncodeDocs(_)
EncodeDocs(ds) ==
    IF ds = <<>> THEN <<>> ELSE EncodeDoc(Head(ds)) \o EncodeDocs(Tail(ds))

\* archive.MagicNumber, 0x8199e26d
MagicHi == 33177

MagicLo == 57965

MagicNumber == [hi |-> MagicHi, lo |-> MagicLo]

terminatorBytes == Bytes(<<255, 255, 255, 255>>)

\* what follows the terminator in an archive: the first bytes of the
\* namespace segments
TrailingData == Bytes(<<40, 0>>)

EncodeArchive(a) ==
    Bytes(a.magic) \o EncodeDoc(a.header) \o EncodeDocs(a.docs)
        \o terminatorBytes \o TrailingData

(***************************************************************************)
(* Errors are chains of messages, outermost first; Nil is Go's nil error.  *)
(***************************************************************************)
Nil == <<>>

\* errors.New / fmt.Errorf
NewError(msg) == <<msg>>

\* errors.Wrap and errors.Wrapf of github.com/pkg/errors: nil for a nil err
Wrap(e, msg) == IF e = Nil THEN Nil ELSE <<msg>> \o e

(***************************************************************************)
(* Strings.  TLC cannot take a string apart: Chars spells out the strings  *)
(* of the model that the decoder parses character by character.            *)
(***************************************************************************)
Chars(s) ==
    CASE s = "" -> <<>>
      [] s = "0" -> <<"0">>
      [] s = "5" -> <<"5">>
      [] s = "x" -> <<"x">>
      [] s = "00" -> <<"0", "0">>
      [] s = "gi" -> <<"g", "i">>
      [] s = "-1" -> <<"-", "1">>
      [] s = "080" -> <<"0", "8", "0">>
      [] s = "1000" -> <<"1", "0", "0", "0">>
      [] s = "1500" -> <<"1", "5", "0", "0">>
      [] s = "AA==" -> <<"A", "A", "=", "=">>
      [] s = "-1500" -> <<"-", "1", "5", "0", "0">>
      [] s = "0x5dc" -> <<"0", "x", "5", "d", "c">>
      [] s = "-0x5DC" -> <<"-", "0", "x", "5", "D", "C">>
      [] s = "02734" -> <<"0", "2", "7", "3", "4">>
      [] s = "2147483648" -> <<"2", "1", "4", "7", "4", "8", "3", "6", "4", "8">>
      [] s = "0123456789abcdef01234567" ->
            <<"0", "1", "2", "3", "4", "5", "6", "7", "8", "9", "a", "b",
              "c", "d", "e", "f", "0", "1", "2", "3", "4", "5", "6", "7">>
      [] OTHER -> <<"?">>

DigitValue(c) ==
    CASE c = "0" -> 0 [] c = "1" -> 1 [] c = "2" -> 2 [] c = "3" -> 3
      [] c = "4" -> 4 [] c = "5" -> 5 [] c = "6" -> 6 [] c = "7" -> 7
      [] c = "8" -> 8 [] c = "9" -> 9
      [] c \in {"a", "A"} -> 10 [] c \in {"b", "B"} -> 11
      [] c \in {"c", "C"} -> 12 [] c \in {"d", "D"} -> 13
      [] c \in {"e", "E"} -> 14 [] c \in {"f", "F"} -> 15
      [] OTHER -> 99

\* math.MaxInt32, the range of ParseInt(v, 0, 32).  The model's integers
\* hold no more, so the numerals given to ParseInt(v, 0, 64) stay below it.
MaxInt32 == 2147483647

\* the digits cs in the base, or -1 for a digit outside the base, -2 for
\* a value out of range
RECURSIVE Digits(_, _, _)
Digits(cs, base, acc) ==
    IF cs = <<>> THEN acc
    ELSE LET dv == DigitValue(Head(cs)) IN
         IF dv >= base THEN -1
         ELSE IF acc > (MaxInt32 - dv) \div base THEN -2
         ELSE Digits(Tail(cs), base, acc * base + dv)

\* strconv.ParseInt(s, 0, bitSize): an optional sign, then the base from the
\* prefix (0x hexadecimal, a leading 0 octal, else decimal)
ParseInt(s) ==
    LET cs == Chars(s)
        neg == cs # <<>> /\ Head(cs) = "-"
        body == IF cs # <<>> /\ Head(cs) \in {"-", "+"} THEN Tail(cs) ELSE cs
        hex == Len(body) >= 2 /\ body[1] = "0" /\ body[2] \in {"x", "X"}
        oct == ~hex /\ Len(body) >= 2 /\ body[1] = "0"
        digits == IF hex THEN SubSeq(body, 3, Len(body))
                  ELSE IF oct THEN Tail(body) ELSE body
        mag == Digits(digits, IF hex THEN 16 ELSE IF oct THEN 8 ELSE 10, 0)
    IN IF digits = <<>> \/ mag = -1
       THEN [err |-> NewError("invalid syntax"), n |-> 0]
       ELSE IF mag = -2
       THEN [err |-> NewError("value out of range"), n |-> IF neg THEN -MaxInt32 ELSE MaxInt32]
       ELSE [err |-> Nil, n |-> IF neg THEN -mag ELSE mag]

\* primitive.ParseDecimal128 on the strings of the model: the decimal
\* numerals
ParseDecimal128(s) ==
    LET cs == Chars(s)
        body == IF cs # <<>> /\ Head(cs) \in {"-", "+"} THEN Tail(cs) ELSE cs
    IN IF body # <<>> /\ Digits(body, 10, 0) # -1
       THEN [val |-> [t |-> "decimal128", v |-> s], err |-> Nil]
       ELSE [val |-> [t |-> "null", v |-> 0], err |-> NewError("cannot parse decimal128")]

\* hex.DecodeString: one byte for every two hexadecimal characters
RECURSIVE HexBytes(_)
HexBytes(cs) ==
    IF cs = <<>> THEN [err |-> Nil, bytes |-> <<>>]
    ELSE IF Len(cs) = 1 THEN [err |-> NewError("odd length hex string"), bytes |-> <<>>]
    ELSE IF DigitValue(cs[1]) > 15 \/ DigitValue(cs[2]) > 15
    THEN [err |-> NewError("invalid byte"), bytes |-> <<>>]
    ELSE LET rest == HexBytes(SubSeq(cs, 3, Len(cs))) IN
         IF rest.err # Nil THEN rest
         ELSE [err |-> Nil,
               bytes |-> <<16 * DigitValue(cs[1]) + DigitValue(cs[2])>> \o rest.bytes]

\* primitive.ObjectIDFromHex: 24 hexadecimal characters
ObjectIDFromHex(s) ==
    IF Len(s) = 24 /\ HexBytes(Chars(s)).err = Nil
    THEN [val |-> [t |-> "objectID", v |-> s], err |-> Nil]
    ELSE [val |-> [t |-> "null", v |-> 0], err |-> NewError("invalid ObjectID hex")]

\* base64.StdEncoding.DecodeString on the strings of the model
Base64Decode(s) ==
    CASE s = "" -> [err |-> Nil, bytes |-> <<>>]
      [] s = "AA==" -> [err |-> Nil, bytes |-> <<0>>]
      [] OTHER -> [err |-> NewError("illegal base64 data"), bytes |-> <<>>]

(***************************************************************************)
(* Go's integer division truncates toward zero; TLA+'s \div and % floor.   *)
(***************************************************************************)
Quo(a, b) == IF a >= 0 THEN a \div b ELSE -((-a) \div b)

Rem(a, b) == a - b * Quo(a, b)

\* time.Unix(sec, nsec), held as the arguments of the call
TimeUnix(sec, nsec) == [t |-> "time", v |-> [sec |-> sec, nsec |-> nsec]]

\* the instant a time value denotes: time.Unix brings nsec into
\* [0, 999999999] by moving whole seconds into sec
Instant(tm) ==
    [sec |-> tm.v.sec + (tm.v.nsec \div 1000000000), nsec |-> tm.v.nsec % 1000000000]

Null == [t |-> "null", v |-> 0]

Ok(val) == [val |-> val, err |-> Nil]

Bad(msg) == [val |-> Null, err |-> NewError(msg)]

(***************************************************************************)
(* The special-key decoder (bsonutil.go).  A decoder value is a bson.D     *)
(* ("document", a sequence of elements), a map[string]interface{} ("map",  *)
(* a function from its keys), a scalar, or a typed value the decoder       *)
(* builds.                                                                 *)
(***************************************************************************)
MapVal(m) == [t |-> "map", v |-> m]

Keys(d) == {d[i].Key : i \in 1..Len(d)}

\* bson.D.Map(): the last element of a key wins
DMap(d) ==
    [k \in Keys(d) |->
        d[CHOOSE i \in 1..Len(d) :
            d[i].Key = k /\ \A j \in (i + 1)..Len(d) : d[j].Key # k].Value]

Has(doc, k) == k \in DOMAIN doc

IsSubdocument(val) == val.t \in {"document", "map"}

\* parseNumberLongField (bsonutil.go 438-447)
parseNumberLongField(jsonValue) ==
    IF jsonValue.t = "string" THEN ParseInt(jsonValue.v)
    ELSE [err |-> NewError("expected $numberLong field to have string value"), n |-> 0]

\* time.Unix(n/1e3, n%1e3*1e6) (bsonutil.go 196, 205, 211, 214, 217, 219)
dateFromMillisFloor(n) == TimeUnix(n \div 1000, (n % 1000) * 1000000)

dateFromMillis(n) == TimeUnix(Quo(n, 1000), Rem(n, 1000) * 1000000)

\* the $numberLong payload of a $date (bsonutil.go 189-207)
dateFromNumberLong(asMap) ==
    IF Has(asMap, "$numberLong")
    THEN LET p == parseNumberLongField(asMap["$numberLong"]) IN
         IF p.err # Nil THEN [val |-> Null, err |-> p.err]
         ELSE Ok(dateFromMillis(p.n))
    ELSE Bad("expected $numberLong field in $date")

\* util.ToUInt32 on the numeric values of the model
ToUInt32(val) ==
    IF val.t \in {"int32", "int64", "float64"} /\ val.v >= 0
    THEN [err |-> Nil, n |-> val.v]
    ELSE [err |-> NewError("not a uint32"), n |-> 0]

SingleFieldKeys ==
    {"$date", "$code", "$oid", "$numberLong", "$numberInt", "$timestamp",
     "$numberDecimal", "$undefined", "$maxKey", "$minKey"}

\* case 1 of ParseSpecialKeys (bsonutil.go 184-317), doc holding one of
\* SingleFieldKeys
singleField(doc) ==
    IF Has(doc, "$date") THEN
        LET v == doc["$date"] IN
        CASE v.t = "string" -> Ok([t |-> "formattedDate", v |-> v.v])
          [] v.t = "document" -> dateFromNumberLong(DMap(v.v))
          [] v.t = "map" -> dateFromNumberLong(v.v)
          [] v.t \in {"float64", "int32", "int64"} -> Ok(dateFromMillis(v.v))
          [] v.t = "isodate" -> Ok(v)
          [] OTHER -> Bad("invalid type for $date field")
    ELSE IF Has(doc, "$code") THEN
        IF doc["$code"].t = "string"
        THEN Ok([t |-> "javascript", v |-> doc["$code"].v])
        ELSE Bad("expected $code field to have string value")
    ELSE IF Has(doc, "$oid") THEN
        IF doc["$oid"].t = "string" THEN ObjectIDFromHex(doc["$oid"].v)
        ELSE Bad("expected $oid field to have string value")
    ELSE IF Has(doc, "$numberLong") THEN
        LET p == parseNumberLongField(doc["$numberLong"]) IN
        [val |-> Int64(p.n), err |-> p.err]
    ELSE IF Has(doc, "$numberInt") THEN
        IF doc["$numberInt"].t = "string"
        THEN LET p == ParseInt(doc["$numberInt"].v) IN
             [val |-> Int32(p.n), err |-> p.err]
        ELSE Bad("expected $numberInt field to have string value")
    ELSE IF Has(doc, "$timestamp") THEN
        LET jv == doc["$timestamp"] IN
        IF ~IsSubdocument(jv)
        THEN Bad("expected $timestamp key to have internal document")
        ELSE LET tsDoc == IF jv.t = "map" THEN jv.v ELSE DMap(jv.v) IN
             IF ~Has(tsDoc, "t") THEN Bad("expected $timestamp to have 't' field")
             ELSE IF ToUInt32(tsDoc["t"]).err # Nil
             THEN Bad("expected $timestamp 't' field to be a numeric type")
             ELSE IF ~Has(tsDoc, "i") THEN Bad("expected $timestamp to have 'i' field")
             ELSE IF ToUInt32(tsDoc["i"]).err # Nil
             THEN Bad("expected $timestamp 'i' field to be  a numeric type")
             ELSE Ok([t |-> "timestamp",
                      v |-> [T |-> ToUInt32(tsDoc["t"]).n, I |-> ToUInt32(tsDoc["i"]).n]])
    ELSE IF Has(doc, "$numberDecimal") THEN
        IF doc["$numberDecimal"].t = "string"
        THEN ParseDecimal128(doc["$numberDecimal"].v)
        ELSE Bad("expected $numberDecimal field to have string value")
    ELSE IF Has(doc, "$undefined") THEN Ok([t |-> "undefined", v |-> 0])
    ELSE IF Has(doc, "$maxKey") THEN Ok([t |-> "maxKey", v |-> 0])
    ELSE Ok([t |-> "minKey", v |-> 0])

\* the regular expression options: g, i, m, s (bsonutil.go 369-376)
ValidOptions(s) == \A i \in 1..Len(Chars(s)) : Chars(s)[i] \in {"g", "i", "m", "s"}

\* the $regex branch of case 2 (bsonutil.go 346-378)
regexField(doc) ==
    IF doc["$regex"].t # "string" THEN Bad("expected $regex field to have string value")
    ELSE IF ~Has(doc, "$options") THEN Bad("expected $options field with $regex field")
    ELSE IF doc["$options"].t # "string"
    THEN Bad("expected $options field to have string value")
    ELSE IF ~ValidOptions(doc["$options"].v) THEN Bad("invalid regular expression option")
    ELSE Ok([t |-> "regex",
             v |-> [Pattern |-> doc["$regex"].v, Options |-> doc["$options"].v]])

\* the $binary branch of case 2 (bsonutil.go 380-412)
binaryField(doc) ==
    IF doc["$binary"].t # "string" THEN Bad("expected $binary field to have string value")
    ELSE IF Base64Decode(doc["$binary"].v).err # Nil
    THEN [val |-> Null, err |-> Base64Decode(doc["$binary"].v).err]
    ELSE IF ~Has(doc, "$type") THEN Bad("expected $type field with $binary field")
    ELSE IF doc["$type"].t # "string" THEN Bad("expected $type field to have string value")
    ELSE LET kind == HexBytes(Chars(doc["$type"].v)) IN
         IF kind.err # Nil THEN [val |-> Null, err |-> kind.err]
         ELSE IF Len(kind.bytes) # 1
         THEN Bad("expected single byte (as hexadecimal string) for $type field")
         ELSE Ok([t |-> "binary",
                  v |-> [Subtype |-> kind.bytes[1],
                         Data |-> Base64Decode(doc["$binary"].v).bytes]])

TwoFieldKeys == {"$code", "$regex", "$binary"}

RECURSIVE ParseSpecialKeys(_), GetExtendedBsonD(_),
          ConvertLegacyExtJSONValueToBSON(_), ParseLegacyExtJSONValue(_)

\* the $code branch of case 2 (bsonutil.go 320-344)
codeField(doc) ==
    IF doc["$code"].t # "string" THEN Bad("expected $code field to have string value")
    ELSE IF ~Has(doc, "$scope") THEN Bad("expected $scope field with $code field")
    ELSE IF ~IsSubdocument(doc["$scope"]) THEN Bad("expected $scope field to contain map")
    ELSE LET x == ParseSpecialKeys(doc["$scope"]) IN
         IF x.err # Nil THEN [val |-> Null, err |-> x.err]
         ELSE Ok([t |-> "codeWithScope",
                  v |-> [Code |-> doc["$code"].v, Scope |-> x.val]])

\* case 2 taking a branch only for a recognized pair of keys, any other
\* document of two keys left to the recursion
twoFieldsLenient(doc) ==
    IF Has(doc, "$code") /\ Has(doc, "$scope") THEN codeField(doc)
    ELSE IF Has(doc, "$regex") /\ Has(doc, "$options") THEN regexField(doc)
    ELSE IF Has(doc, "$binary") /\ Has(doc, "$type") THEN binaryField(doc)
    ELSE [val |-> Null, err |-> Nil, none |-> TRUE]

\* case 2 of ParseSpecialKeys (bsonutil.go 319-413); none: no branch was
\* taken and the switch is left
twoFields(doc) ==
    IF Has(doc, "$code") THEN codeField(doc)
    ELSE IF Has(doc, "$regex") THEN regexField(doc)
    ELSE IF Has(doc, "$binary") THEN binaryField(doc)
    ELSE [val |-> Null, err |-> Nil, none |-> TRUE]

\* ParseSpecialKeys (bsonutil.go 171-424)
ParseSpecialKeys(special) ==
    IF ~IsSubdocument(special) THEN Bad("not valid input to ParseSpecialKeys")
    ELSE LET doc == IF special.t = "map" THEN special.v ELSE DMap(special.v)
             len == Cardinality(DOMAIN doc)
             two == IF len = 2 THEN twoFields(doc) ELSE [none |-> TRUE]
         IN
         IF len = 1 /\ DOMAIN doc \subseteq SingleFieldKeys THEN singleField(doc)
         ELSE IF len = 2 /\ DOMAIN two = {"val", "err"} THEN two
         ELSE \* nothing matched, so we recurse deeper
              IF special.t = "document" THEN GetExtendedBsonD(special.v)
              ELSE ConvertLegacyExtJSONValueToBSON(special)

\* ParseLegacyExtJSONValue (bsonutil.go 428-436)
ParseLegacyExtJSONValue(jsonValue) ==
    IF IsSubdocument(jsonValue) THEN ParseSpecialKeys(jsonValue)
    ELSE ConvertLegacyExtJSONValueToBSON(jsonValue)

\* the loop of GetExtendedBsonD (bsonutil.go 72-87), conv holding the
\* converted values of the elements
extendedBsonD(doc, conv) ==
    LET bad == {i \in 1..Len(doc) : conv[i].err # Nil} IN
    IF bad # {}
    THEN [val |-> Null, err |-> conv[CHOOSE i \in bad : \A j \in bad : i <= j].err]
    ELSE Ok(Doc([i \in 1..Len(doc) |-> E(doc[i].Key, conv[i].val)]))

\* GetExtendedBsonD (bsonutil.go 69-89): the elements in order, the first
\* error ending the loop
GetExtendedBsonD(doc) ==
    extendedBsonD(doc, [i \in 1..Len(doc) |-> ParseLegacyExtJSONValue(doc[i].Value)])

\* a map of converted values.  Go ranges over a map in no fixed order: of
\* several errors one is returned.
convertedMap(conv) ==
    LET bad == {k \in DOMAIN conv : conv[k].err # Nil} IN
    IF bad # {} THEN [val |-> Null, err |-> conv[CHOOSE k \in bad : TRUE].err]
    ELSE Ok(MapVal([k \in DOMAIN conv |-> conv[k].val]))

\* a list of converted values, the first error ending the loop
convertedArray(conv) ==
    LET bad == {i \in 1..Len(conv) : conv[i].err # Nil} IN
    IF bad # {}
    THEN [val |-> Null, err |-> conv[CHOOSE i \in bad : \A j \in bad : i <= j].err]
    ELSE Ok(Arr([i \in 1..Len(conv) |-> conv[i].val]))

\* ConvertLegacyExtJSONValueToBSON (converter.go): scalars as they are, the
\* values of maps, documents and lists through ParseLegacyExtJSONValue
ConvertLegacyExtJSONValueToBSON(x) ==
    CASE x.t = "map" ->
            convertedMap([k \in DOMAIN x.v |-> ParseLegacyExtJSONValue(x.v[k])])
      [] x.t = "document" -> GetExtendedBsonD(x.v)
      [] x.t = "array" ->
            convertedArray([i \in 1..Len(x.v) |-> ParseLegacyExtJSONValue(x.v[i])])
      [] x.t \in {"string", "float64", "int32", "int64", "bool", "null"} -> Ok(x)
      [] OTHER -> Bad("conversion of JSON value not supported")

\* the orders in which a range over a map with keys S may visit them
Orders(S) ==
    {o \in [1..Cardinality(S) -> S] : \A i, j \in 1..Cardinality(S) : o[i] = o[j] => i = j}

\* the value of one field (bsonutil.go 52-57)
convertField(jsonValue) ==
    IF IsSubdocument(jsonValue) THEN ParseSpecialKeys(jsonValue)
    ELSE ConvertLegacyExtJSONValueToBSON(jsonValue)

\* the first place in order whose field fails to convert, or one past the
\* last
firstFailure(conv, order) ==
    LET bad == {i \in 1..Len(order) : conv[order[i]].err # Nil} IN
    IF bad = {} THEN Len(order) + 1 ELSE CHOOSE i \in bad : \A j \in bad : i <= j

\* the map after the fields at the first n places of order are assigned
\* their converted values, and the error to return
assigned(doc, conv, order, n, stop) ==
    [doc |-> [k \in DOMAIN doc |->
                 IF \E i \in 1..n : order[i] = k THEN conv[k].val ELSE doc[k]],
     err |-> IF stop > Len(order) THEN Nil ELSE conv[order[stop]].err]

\* the loop assigning doc[key] before it looks at the error: the field that
\* failed is left holding nil
convertInPlaceEager(doc, conv, order) ==
    assigned(doc, conv, order, Min(Len(order), firstFailure(conv, order)),
             firstFailure(conv, order))

ConvertLegacyExtJSONDocumentToBSONEager(doc, order) ==
    convertInPlaceEager(doc, [k \in DOMAIN doc |-> convertField(doc[k])], order)

\* the loop of ConvertLegacyExtJSONDocumentToBSON (bsonutil.go 48-63): a
\* field is assigned once its value is converted, and the first error ends
\* the loop with the fields visited before it already assigned
convertInPlace(doc, conv, order) ==
    assigned(doc, conv, order, firstFailure(conv, order) - 1, firstFailure(conv, order))

\* ConvertLegacyExtJSONDocumentToBSON (bsonutil.go 47-65), the range over
\* the map visiting the keys in order: doc is the map as the call leaves it
ConvertLegacyExtJSONDocumentToBSON(doc, order) ==
    convertInPlace(doc, [k \in DOMAIN doc |-> convertField(doc[k])], order)

(***************************************************************************)
(* Reading.  A reader is at a cursor (a byte offset into the stream).      *)
(***************************************************************************)
\* io.ReadFull(r, buf) with len(buf) = n, the reader at cursor cur:
\* exactly n bytes, or an error after reading what there is
ReadFull(cur, n) ==
    LET avail == Len(stream) - cur IN
    IF avail >= n
    THEN [err |-> Nil, n |-> n, data |-> SubSeq(stream, cur + 1, cur + n)]
    ELSE [err |-> NewError(IF avail = 0 THEN "EOF" ELSE "unexpected EOF"),
          n |-> avail, data |-> SubSeq(stream, cur + 1, cur + avail)]

\* the bytes read most significant first
Uint32BigEndian(b) == [hi |-> b[2].n + 256 * b[1].n, lo |-> b[4].n + 256 * b[3].n]

\* binary.LittleEndian.Uint32
Uint32(b) == [hi |-> b[3].n + 256 * b[4].n, lo |-> b[1].n + 256 * b[2].n]

\* the length prefix, a little-endian int32
ReadLength(b) ==
    LET u == Uint32(b) IN
    IF u.hi >= 32768 THEN (u.hi - 65536) * 65536 + u.lo ELSE u.hi * 65536 + u.lo

MinDocLen == 5

MaxDocLen == 16777216

\* whether every type tag of the elements is one the format defines
RECURSIVE KnownTags(_)
KnownTags(d) ==
    \A i \in 1..Len(d) :
        /\ d[i].Value.t \in {"string", "int32", "int64", "document", "array"}
        /\ d[i].Value.t \in {"document", "array"} => KnownTags(d[i].Value.v)

\* bson.ReadDocument: the length prefix, then the remaining length - 4 bytes
ReadDocument(cur) ==
    LET pre == ReadFull(cur, 4) IN
    IF pre.err # Nil THEN [err |-> pre.err, n |-> pre.n, raw |-> <<>>]
    ELSE LET length == ReadLength(pre.data) IN
         IF length < MinDocLen \/ length > MaxDocLen
         THEN [err |-> NewError("invalid document length"), n |-> 4, raw |-> <<>>]
         ELSE LET rest == ReadFull(cur + 4, length - 4) IN
              IF rest.err # Nil
              THEN [err |-> rest.err, n |-> 4 + rest.n, raw |-> <<>>]
              ELSE [err |-> Nil, n |-> length, raw |-> pre.data \o rest.data]

\* bson.Unmarshal(raw, &bson.D{}): the elements the bytes encode
Unmarshal(raw) ==
    IF /\ Len(raw) >= MinDocLen
       /\ raw[5].k = "elems"
       /\ BsonSize(raw[5].d) = Len(raw)
       /\ \A i \in 6..Len(raw) : raw[i].k = "cont"
       /\ KnownTags(raw[5].d)
    THEN [err |-> Nil, doc |-> raw[5].d]
    ELSE [err |-> NewError("invalid BSON"), doc |-> <<>>]

\* readBSON handing the document to the special-key decoder
readBSONDecoding(cur) ==
    LET rd == ReadDocument(cur) IN
    IF rd.err # Nil
    THEN [err |-> Wrap(rd.err, "failed to read BSON document"), n |-> rd.n, doc |-> <<>>]
    ELSE LET um == Unmarshal(rd.raw) IN
         IF um.err # Nil
         THEN [err |-> Wrap(um.err, "failed to decode BSON document"),
               n |-> rd.n, doc |-> <<>>]
         ELSE LET x == GetExtendedBsonD(um.doc) IN
              IF x.err # Nil THEN [err |-> x.err, n |-> rd.n, doc |-> <<>>]
              ELSE [err |-> Nil, n |-> rd.n, doc |-> x.val.v]

\* readBSON(rdr, &target) (main.go 161-176) with rdr at cursor cur: n is
\* the bytes read
readBSON(cur) ==
    LET rd == ReadDocument(cur) IN
    IF rd.err # Nil
    THEN [err |-> Wrap(rd.err, "failed to read BSON document"), n |-> rd.n, doc |-> <<>>]
    ELSE LET um == Unmarshal(rd.raw) IN
         IF um.err # Nil
         THEN [err |-> Wrap(um.err, "failed to decode BSON document"),
               n |-> rd.n, doc |-> <<>>]
         ELSE [err |-> Nil, n |-> rd.n, doc |-> um.doc]

\* checkMagicBytes(input), input at offset 0
checkMagicBytes ==
    LET rd == ReadFull(0, 4) IN
    IF rd.err # Nil
    THEN [err |-> Wrap(rd.err, "failed to read archive magic bytes"), n |-> rd.n]
    ELSE IF Uint32(rd.data) # MagicNumber
         THEN [err |-> NewError("unexpected magic number header"), n |-> rd.n]
         ELSE [err |-> Nil, n |-> rd.n]

(***************************************************************************)
(* bson.UnmarshalExtJSON(text, false, &bson.D{}) on the strings of the     *)
(* model: the document a text denotes, or an error.                        *)
(***************************************************************************)
UnmarshalExtJSON(text) ==
    CASE text = "{\"type\":\"collection\"}" ->
            [err |-> Nil, doc |-> <<E("type", Str("collection"))>>]
      [] text = "{}" ->
            [err |-> Nil, doc |-> <<>>]
      [] text = "{\"n\":{\"$numberLong\":\"5\"}}" ->
            [err |-> Nil, doc |-> <<E("n", Int64(5))>>]
      [] OTHER ->
            [err |-> NewError("invalid JSON input"), doc |-> <<>>]

\* the loop leaving mdDoc once a metadata field is replaced
RECURSIVE metadataFieldsFirst(_, _, _, _)
metadataFieldsFirst(mdDoc, i, diags, outer) ==
    IF i > Len(mdDoc)
    THEN [doc |-> mdDoc, diags |-> diags, ret |-> FALSE, retErr |-> Nil]
    ELSE IF mdDoc[i].Key # "metadata"
    THEN metadataFieldsFirst(mdDoc, i + 1, diags, outer)
    ELSE IF mdDoc[i].Value.t # "string"
    THEN [doc |-> mdDoc, diags |-> diags, ret |-> TRUE,
          retErr |-> Wrap(outer, "expected collection metadata to be string")]
    ELSE LET parsed == UnmarshalExtJSON(mdDoc[i].Value.v) IN
         IF parsed.err # Nil
         THEN metadataFieldsFirst(mdDoc, i + 1,
                  Append(diags, <<"failed to parse collection metadata string">>
                                    \o parsed.err),
                  outer)
         ELSE [doc |-> [mdDoc EXCEPT ![i].Value = Doc(parsed.doc)], diags |-> diags,
               ret |-> FALSE, retErr |-> Nil]

\* the loop returning the parse error of a metadata string
RECURSIVE metadataFieldsFatal(_, _, _, _)
metadataFieldsFatal(mdDoc, i, diags, outer) ==
    IF i > Len(mdDoc)
    THEN [doc |-> mdDoc, diags |-> diags, ret |-> FALSE, retErr |-> Nil]
    ELSE IF mdDoc[i].Key # "metadata"
    THEN metadataFieldsFatal(mdDoc, i + 1, diags, outer)
    ELSE IF mdDoc[i].Value.t # "string"
    THEN [doc |-> mdDoc, diags |-> diags, ret |-> TRUE,
          retErr |-> Wrap(outer, "expected collection metadata to be string")]
    ELSE LET parsed == UnmarshalExtJSON(mdDoc[i].Value.v) IN
         IF parsed.err # Nil
         THEN [doc |-> mdDoc, diags |-> diags, ret |-> TRUE,
               retErr |-> Wrap(parsed.err, "failed to parse collection metadata string")]
         ELSE metadataFieldsFatal([mdDoc EXCEPT ![i].Value = Doc(parsed.doc)],
                  i + 1, diags, outer)

\* the loop over mdDoc's fields (main.go 117-138) from index i on; outer is
\* getCollectionMetadata's err at that point.  ret: the loop returned from
\* getCollectionMetadata with retErr.
RECURSIVE metadataFields(_, _, _, _)
metadataFields(mdDoc, i, diags, outer) ==
    IF i > Len(mdDoc)
    THEN [doc |-> mdDoc, diags |-> diags, ret |-> FALSE, retErr |-> Nil]
    ELSE IF mdDoc[i].Key # "metadata"
    THEN metadataFields(mdDoc, i + 1, diags, outer)
    ELSE IF mdDoc[i].Value.t # "string"
    THEN [doc |-> mdDoc, diags |-> diags, ret |-> TRUE,
          retErr |-> Wrap(outer, "expected collection metadata to be string")]
    ELSE LET parsed == UnmarshalExtJSON(mdDoc[i].Value.v) IN
         IF parsed.err # Nil
         THEN metadataFields(mdDoc, i + 1,
                  Append(diags, <<"failed to parse collection metadata string">>
                                    \o parsed.err),
                  outer)
         ELSE metadataFields([mdDoc EXCEPT ![i].Value = Doc(parsed.doc)],
                  i + 1, diags, outer)

(***************************************************************************)
(* The walker: getReport and getCollectionMetadata.                        *)
(***************************************************************************)
\* a []bson.D: Go tells the nil slice from the empty one
Slice(items) == [nil |-> FALSE, items |-> items]

NilSlice == [nil |-> TRUE, items |-> <<>>]

\* Report{}
EmptyReport == [Header |-> <<>>, CollectionMetadata |-> NilSlice]

\* the reader's cursor: bufInput serves its buffer before the input
Cursor == consumed - buffered

Op(name, at) == [op |-> name, at |-> at]

\* getReport returns with an error
Fail(e) ==
    /\ pc' = "Failed"
    /\ err' = e
    /\ report' = EmptyReport

\* main.go 72-75
ExpectMagic ==
    /\ pc = "ExpectMagic"
    /\ LET r == checkMagicBytes IN
       /\ consumed' = consumed + r.n
       /\ ops' = Append(ops, Op("ReadFull", 0))
       /\ IF r.err # Nil
          THEN Fail(Wrap(r.err, "this does not appear to be a mongodump archive"))
          ELSE pc' = "ExpectHeader" /\ UNCHANGED <<err, report>>
    /\ UNCHANGED <<archive, stream, greedy, buffered, header, mdDocs, errOut>>
    /\ UNCHANGED decoderVars

\* main.go 77-83
ExpectHeader ==
    /\ pc = "ExpectHeader"
    /\ LET r == readBSON(Cursor) IN
       /\ consumed' = consumed + r.n
       /\ ops' = Append(ops, Op("ReadDocument", Cursor))
       /\ IF r.err # Nil
          THEN Fail(Wrap(r.err, "failed to read archive header")) /\ UNCHANGED header
          ELSE pc' = "ReadingMetadata" /\ header' = r.doc /\ UNCHANGED <<err, report>>
    /\ UNCHANGED <<archive, stream, greedy, buffered, mdDocs, errOut>>
    /\ UNCHANGED decoderVars

\* bufInput.Peek(4): what bufio takes from the input to hold 4 bytes.  A
\* greedy input fills the buffer with all it has, a lazy one gives no more
\* than is needed.
BufSize == 4096

PeekFetch ==
    LET avail == Len(stream) - consumed IN
    IF buffered >= 4 THEN 0
    ELSE IF greedy THEN Min(avail, BufSize - buffered)
    ELSE Min(avail, 4 - buffered)

\* a read of 4 bytes in place of the peek
PeekConsuming(cur, held) ==
    IF held < 4
    THEN [err |-> NewError("EOF"), next4 |-> <<>>, held |-> held, cur |-> cur]
    ELSE [err |-> Nil, next4 |-> SubSeq(stream, cur + 1, cur + 4),
          held |-> held - 4, cur |-> cur + 4]

\* bufInput.Peek(4) (main.go 103) with held bytes in the buffer after the
\* fill: the next 4 bytes, the buffer and the cursor as they were
Peek(cur, held) ==
    IF held < 4
    THEN [err |-> NewError("EOF"), next4 |-> <<>>, held |-> held, cur |-> cur]
    ELSE [err |-> Nil, next4 |-> SubSeq(stream, cur + 1, cur + 4),
          held |-> held, cur |-> cur]

prependDoc(docs, d) == <<d>> \o docs

\* mdDocs = append(mdDocs, mdDoc) (main.go 140)
appendDoc(docs, d) == Append(docs, d)

\* one iteration of getCollectionMetadata's loop (main.go 102-141), and
\* getReport's return when the loop ends (main.go 85-96)
ReadingMetadata ==
    /\ pc = "ReadingMetadata"
    /\ LET taken == consumed + PeekFetch
           pk == Peek(Cursor, buffered + PeekFetch)
       IN
       IF pk.err # Nil
       THEN /\ Fail(Wrap(Wrap(pk.err, "failed to check for end of collection metadata"),
                         "failed to read collection metadata"))
            /\ consumed' = taken /\ buffered' = pk.held
            /\ ops' = Append(ops, Op("Peek", Cursor))
            /\ UNCHANGED <<mdDocs, errOut>>
       ELSE IF pk.next4 = terminatorBytes
       THEN \* break; return mdDocs, nil
            /\ pc' = "Done"
            /\ report' = [Header |-> header, CollectionMetadata |-> Slice(mdDocs)]
            /\ consumed' = taken /\ buffered' = pk.held
            /\ ops' = Append(ops, Op("Peek", Cursor))
            /\ UNCHANGED <<err, mdDocs, errOut>>
       ELSE LET r == readBSON(pk.cur) IN
            /\ consumed' = taken + Max(0, r.n - pk.held)
            /\ buffered' = Max(0, pk.held - r.n)
            /\ ops' = ops \o <<Op("Peek", Cursor), Op("ReadDocument", pk.cur)>>
            /\ IF r.err # Nil
               THEN /\ Fail(Wrap(Wrap(r.err,
                                      "failed to read collection metadata document"),
                                 "failed to read collection metadata"))
                    /\ UNCHANGED <<mdDocs, errOut>>
               ELSE LET f == metadataFields(r.doc, 1, <<>>, r.err) IN
                    /\ errOut' = errOut \o f.diags
                    /\ IF f.ret
                       THEN \* return nil, errors.Wrapf(err, ...)
                            IF f.retErr # Nil
                            THEN /\ Fail(Wrap(f.retErr,
                                              "failed to read collection metadata"))
                                 /\ UNCHANGED mdDocs
                            ELSE /\ pc' = "Done"
                                 /\ report' = [Header |-> header,
                                               CollectionMetadata |-> NilSlice]
                                 /\ UNCHANGED <<err, mdDocs>>
                       ELSE /\ mdDocs' = appendDoc(mdDocs, f.doc)
                            /\ UNCHANGED <<pc, err, report>>
    /\ UNCHANGED <<archive, stream, greedy, header>>
    /\ UNCHANGED decoderVars

(***************************************************************************)
(* The archives of the model.                                              *)
(***************************************************************************)
MaxDocs == 2

GoodMagic == PutUint32(MagicNumber)

Magics == {GoodMagic, <<129, 153, 226, 109>>, <<109, 226, 153, 0>>}

OidDoc == <<E("$oid", Str("0123456789abcdef01234567"))>>

Headers ==
    { <<E("version", Str("0.1"))>>,
      <<E("version", Str("0.1")), E("id", Doc(OidDoc))>> }

MetadataDocs ==
    { <<E("db", Str("a")), E("metadata", Str("{\"type\":\"collection\"}"))>>,
      <<E("db", Str("b")), E("metadata", Str("{not json")), E("size", Int32(0))>>,
      <<E("db", Str("c")), E("metadata", Int32(7))>>,
      <<E("db", Str("d")), E("max", Doc(<<E("$maxKey", Int32(1))>>))>>,
      <<E("metadata", Str("{}")), E("db", Str("e")),
        E("metadata", Str("{\"n\":{\"$numberLong\":\"5\"}}"))>>,
      <<E("db", [t |-> "unknown", v |-> 0])>> }

RECURSIVE SeqsUpTo(_, _)
SeqsUpTo(S, n) ==
    IF n = 0 THEN {<<>>}
    ELSE LET shorter == SeqsUpTo(S, n - 1) IN
         shorter \cup {Append(q, x) : q \in shorter, x \in S}

(***************************************************************************)
(* The documents given to the decoder.                                     *)
(***************************************************************************)
MaxMillis == 1600

Millis == (0 - MaxMillis)..MaxMillis

Numerals ==
    {"0", "1000", "1500", "-1", "-1500", "0x5dc", "-0x5DC", "02734", "080", "x", ""}

One(k, val) == Doc(<<E(k, val)>>)

DateInputs ==
    {One("$date", Int32(n)) : n \in Millis}
        \cup {One("$date", Int64(n)) : n \in Millis}
        \cup {MapVal("$date" :> Int64(n)) : n \in {-1500, -1, 0, 1000, 1500}}
        \cup {One("$date", One("$numberLong", Str(s))) : s \in Numerals}
        \cup {MapVal("$date" :> MapVal("$numberLong" :> Str(s))) : s \in Numerals}
        \cup {One("$date", Str("1970-01-01T00:00:00Z")), One("$date", One("a", Str("0"))),
              One("$date", [t |-> "bool", v |-> TRUE])}

SingleInputs ==
    {One(k, val) : k \in SingleFieldKeys \ {"$date"},
                   val \in {Str("0123456789abcdef01234567"), Str("0x5dc"),
                            Str("2147483648"), Str("x"), Int32(1),
                            Doc(<<E("t", Int32(1)), E("i", Int64(2))>>),
                            Doc(<<E("t", Int32(1))>>)}}

TwoKeys == {"$code", "$scope", "$regex", "$options", "$binary", "$type", "a"}

TwoValues ==
    {Str("x"), Str("gi"), Str("00"), Str("AA=="), Int32(1),
     One("a", Int32(1)), One("$oid", Str("x"))}

\* documents of two elements (a key may come twice), of three with a key
\* repeated, and maps of two keys
TwoInputs ==
    {Doc(<<E(k1, v1), E(k2, v2)>>) : k1 \in TwoKeys, k2 \in TwoKeys,
                                     v1 \in TwoValues, v2 \in TwoValues}
        \cup {Doc(<<E(k1, Str("x")), E(k2, v2), E(k1, Str("x"))>>) :
                  k1 \in TwoKeys, k2 \in TwoKeys, v2 \in TwoValues}
        \cup {MapVal((k1 :> v1) @@ (k2 :> v2)) : k1 \in TwoKeys, k2 \in TwoKeys,
                                                 v1 \in TwoValues, v2 \in TwoValues}

OtherInputs ==
    {Doc(<<>>), Str("x"), One("a", Arr(<<One("$maxKey", Int32(1)), Int32(2)>>)),
     Doc(<<E("a", Int32(1)), E("b", One("$numberLong", Str("5"))), E("c", Str("x"))>>)}

ConvertKeys == {"a", "b", "c"}

ConvertValues ==
    {Str("x"), One("$date", Int64(1500)), One("$numberLong", Str("5")),
     One("$numberLong", Str("x")), One("$oid", Str("x")),
     MapVal("$maxKey" :> Int32(1)), One("a", One("$undefined", Int32(1)))}

\* maps of one to three fields, for the conversion in place
ConvertInputs ==
    {MapVal(m) : m \in UNION {[K -> ConvertValues] : K \in (SUBSET ConvertKeys) \ {{}}}}

DecInputs ==
    DateInputs \cup SingleInputs \cup TwoInputs \cup OtherInputs \cup ConvertInputs

DecIdle == [t |-> "none", v |-> 0]

DecIdleOut == [val |-> DecIdle, err |-> Nil]

\* a call of ParseSpecialKeys
Decode ==
    /\ decPc = "ready"
    /\ decOut' = ParseSpecialKeys(decIn)
    /\ decPc' = "done"
    /\ UNCHANGED decIn
    /\ UNCHANGED walkerVars

\* a call of ConvertLegacyExtJSONDocumentToBSON: the map given is the map
\* the caller holds, and the result is the error alone
ConvertDocument ==
    /\ decPc = "ready"
    /\ decIn.t = "map"
    /\ \E order \in Orders(DOMAIN decIn.v) :
          \E r \in {ConvertLegacyExtJSONDocumentToBSON(decIn.v, order)} :
              /\ decIn' = MapVal(r.doc)
              /\ decOut' = [val |-> Null, err |-> r.err]
    /\ decPc' = "converted"
    /\ UNCHANGED walkerVars

\* a call of GetExtendedBsonD: the elements go to a new bson.D
ExtendDocument ==
    /\ decPc = "ready"
    /\ decIn.t = "document"
    /\ decOut' = GetExtendedBsonD(decIn.v)
    /\ decPc' = "extended"
    /\ UNCHANGED decIn
    /\ UNCHANGED walkerVars

DecInit ==
    /\ decIn \in DecInputs
    /\ decOut = DecIdleOut
    /\ decPc = "ready"
    /\ archive = [magic |-> <<>>, header |-> <<>>, docs |-> <<>>, cut |-> 0]
    /\ stream = <<>>
    /\ greedy = FALSE
    /\ pc = "off"
    /\ consumed = 0
    /\ buffered = 0
    /\ ops = <<>>
    /\ header = <<>>
    /\ mdDocs = <<>>
    /\ report = EmptyReport
    /\ err = Nil
    /\ errOut = <<>>

DecNext == Decode \/ ConvertDocument \/ ExtendDocument

DecSpec == DecInit /\ [][DecNext]_vars

\* Archives with the magic number carry up to MaxDocs metadata documents;
\* the walker reads nothing behind another magic number, so those carry at
\* most one.
Archives ==
    [magic : {GoodMagic}, header : Headers, docs : SeqsUpTo(MetadataDocs, MaxDocs)]
        \cup [magic : Magics \ {GoodMagic}, header : Headers,
              docs : SeqsUpTo(MetadataDocs, Min(1, MaxDocs))]

\* the offsets at which a part of the archive ends
RECURSIVE DocEnds(_, _)
DocEnds(ds, from) ==
    IF ds = <<>> THEN {from}
    ELSE {from} \cup DocEnds(Tail(ds), from + BsonSize(Head(ds)))

Boundaries(a) ==
    LET mdEnd == CHOOSE x \in DocEnds(a.docs, 4 + BsonSize(a.header)) :
                     \A y \in DocEnds(a.docs, 4 + BsonSize(a.header)) : y <= x
    IN {0, 4} \cup DocEnds(a.docs, 4 + BsonSize(a.header))
           \cup {mdEnd + 4, mdEnd + 4 + Len(TrailingData)}

\* The input ends anywhere from one byte before the end of a part to
\* CutWindow bytes into the next: at the boundary, inside a length prefix or
\* a peek, after the prefix, inside the body.  The whole archive is the
\* last of these.
CutWindow == 5

Cuts(a) ==
    {c \in 0..Len(EncodeArchive(a)) :
        \E b \in Boundaries(a) : c - b >= -1 /\ c - b <= CutWindow}

Init ==
    /\ \E a \in Archives :
        \E cut \in Cuts(a) :
            /\ archive = [magic |-> a.magic, header |-> a.header, docs |-> a.docs,
                          cut |-> cut]
            /\ stream = SubSeq(EncodeArchive(a), 1, cut)
    /\ greedy \in BOOLEAN
    /\ pc = "ExpectMagic"
    /\ consumed = 0
    /\ buffered = 0
    /\ ops = <<>>
    /\ header = <<>>
    /\ mdDocs = <<>>
    /\ report = EmptyReport
    /\ err = Nil
    /\ errOut = <<>>
    /\ decIn = DecIdle
    /\ decOut = DecIdleOut
    /\ decPc = "idle"

Next ==
    \/ ExpectMagic
    \/ ExpectHeader
    \/ ReadingMetadata

Spec == Init /\ [][Next]_vars

(***************************************************************************)
(* What the stream holds, from the archive it was built from.              *)
(***************************************************************************)
RECURSIVE SumSizes(_)
SumSizes(ds) == IF ds = <<>> THEN 0 ELSE BsonSize(Head(ds)) + SumSizes(Tail(ds))

HeaderEnd == 4 + BsonSize(archive.header)

\* the offset of the k-th metadata document (of the terminator for k one
\* past the last)
DocStart(k) == HeaderEnd + SumSizes(SubSeq(archive.docs, 1, k - 1))

TerminatorAt(at) ==
    /\ Len(stream) >= at + 4
    /\ SubSeq(stream, at + 1, at + 4) = terminatorBytes

\* the stream's first 4 bytes are 6d e2 99 81, the constant 0x8199e26d
\* least significant byte first
MagicMatches ==
    /\ Len(stream) >= 4
    /\ [i \in 1..4 |-> stream[i].n] = <<109, 226, 153, 129>>

\* magic, header, metadata documents and terminator are all in the stream
WholeArchive ==
    /\ MagicMatches
    /\ archive.cut >= DocStart(Len(archive.docs) + 1) + 4

MetadataFields(d) == {i \in 1..Len(d) : d[i].Key = "metadata"}

NonStringFields(d) == {i \in MetadataFields(d) : d[i].Value.t # "string"}

ParsingFields(d) ==
    {i \in MetadataFields(d) \ NonStringFields(d) :
        UnmarshalExtJSON(d[i].Value.v).err = Nil}

FailingFields(d) == (MetadataFields(d) \ NonStringFields(d)) \ ParsingFields(d)

Items == report.CollectionMetadata.items

(***************************************************************************)
(* C1: for an archive of magic, header, metadata documents and terminator  *)
(* whose metadata fields are all strings that parse as extended JSON,      *)
(* getReport does not fail, and the report it returns has the header       *)
(* document as its header and the metadata documents, each metadata field  *)
(* replaced at its position by the parsed structure, as collectionMetadata.*)
(***************************************************************************)
C1_Pre ==
    /\ WholeArchive
    /\ KnownTags(archive.header)
    /\ \A k \in 1..Len(archive.docs) :
        /\ KnownTags(archive.docs[k])
        /\ MetadataFields(archive.docs[k]) = ParsingFields(archive.docs[k])

C1_Expected(d) ==
    [i \in 1..Len(d) |->
        IF d[i].Key = "metadata"
        THEN [Key |-> "metadata",
              Value |-> [t |-> "document", v |-> UnmarshalExtJSON(d[i].Value.v).doc]]
        ELSE d[i]]

C1_ValidArchiveReport ==
    C1_Pre =>
        /\ pc # "Failed"
        /\ err = Nil
        /\ pc = "Done" =>
            /\ report.Header = archive.header
            /\ report.CollectionMetadata =
                [nil |-> FALSE,
                 items |-> [k \in 1..Len(archive.docs) |-> C1_Expected(archive.docs[k])]]

C1_Witness ==
    /\ C1_Pre
    /\ pc = "Done"
    /\ Len(archive.docs) = 2
    /\ \E i \in 1..Len(archive.docs[2]) :
        /\ archive.docs[2][i].Key = "metadata"
        /\ Items[2][i].Value = [t |-> "document", v |-> <<E("type", Str("collection"))>>]

(***************************************************************************)
(* C2: a metadata field that is present but not a string is a warning: the *)
(* document is appended with the field's value retained, and every later   *)
(* metadata document up to the terminator is read and appended.  Stated of *)
(* the report getReport returns without an error.                          *)
(***************************************************************************)
C2_NonStringIsWarning ==
    (pc = "Done" /\ err = Nil) =>
        /\ Len(Items) = Len(archive.docs)
        /\ \A k \in 1..Len(Items) :
            \A i \in NonStringFields(archive.docs[k]) :
                Items[k][i] = archive.docs[k][i]

(***************************************************************************)
(* C3: a step of the metadata loop that reads a document whose metadata    *)
(* fields are strings, some of which fail to parse, writes exactly one     *)
(* diagnostic to errOut for each failing field, appends the document with  *)
(* those fields as they were, stays in the loop and leaves getReport's     *)
(* error nil.                                                              *)
(***************************************************************************)
C3_Case ==
    /\ pc = "ReadingMetadata"
    /\ Len(mdDocs) + 1 <= Len(archive.docs)
    /\ DocStart(Len(mdDocs) + 2) <= archive.cut
    /\ KnownTags(archive.docs[Len(mdDocs) + 1])
    /\ NonStringFields(archive.docs[Len(mdDocs) + 1]) = {}
    /\ FailingFields(archive.docs[Len(mdDocs) + 1]) # {}

C3_ParseFailureIsWarning ==
    [][C3_Case =>
        LET k == Len(mdDocs) + 1
            d == archive.docs[k]
        IN /\ Len(errOut') = Len(errOut) + Cardinality(FailingFields(d))
           /\ SubSeq(errOut', 1, Len(errOut)) = errOut
           /\ \A j \in (Len(errOut) + 1)..Len(errOut') :
                Head(errOut'[j]) = "failed to parse collection metadata string"
           /\ Len(mdDocs') = k
           /\ SubSeq(mdDocs', 1, k - 1) = mdDocs
           /\ \A i \in FailingFields(d) : mdDocs'[k][i] = d[i]
           /\ pc' = "ReadingMetadata"
           /\ err' = Nil
           /\ report' = report]_vars

C3_Witness ==
    /\ pc = "Done"
    /\ err = Nil
    /\ Len(errOut) = 1
    /\ Len(Items) = 2
    /\ FailingFields(archive.docs[1]) # {}
    /\ \E i \in FailingFields(archive.docs[1]) : Items[1][i].Value = Str("{not json")

(***************************************************************************)
(* C4: when the first 4 bytes are not the magic number least significant   *)
(* byte first, or there are fewer than 4, getReport fails with the magic   *)
(* check's diagnostic and an empty report, having made the one read of 4   *)
(* bytes and nothing else; when they are, the magic check does not fail.   *)
(***************************************************************************)
MagicDiagnostic == "this does not appear to be a mongodump archive"

C4_MagicCheck ==
    /\ ~MagicMatches =>
        /\ pc \in {"ExpectMagic", "Failed"}
        /\ pc = "Failed" =>
            /\ err # Nil
            /\ Head(err) = MagicDiagnostic
            /\ report = EmptyReport
            /\ consumed = Min(4, Len(stream))
            /\ buffered = 0
            /\ ops = <<Op("ReadFull", 0)>>
    /\ (MagicMatches /\ pc # "ExpectMagic") =>
        /\ consumed >= 4
        /\ ~(err # Nil /\ Head(err) = MagicDiagnostic)

C4_Witness ==
    /\ ~MagicMatches
    /\ pc = "Failed"
    /\ Len(stream) > HeaderEnd
    /\ consumed = 4

(***************************************************************************)
(* C5: in the metadata loop no document read is made where the 4 bytes     *)
(* ahead are the terminator; the peek that sees the terminator ends the    *)
(* walk with the cursor still before it, at 4 + the header's length + the  *)
(* metadata documents' lengths; a terminator right after the header gives  *)
(* an empty list.                                                          *)
(***************************************************************************)
C5_TerminatorPeekOnly ==
    /\ \A i \in 3..Len(ops) :
        /\ ops[i].op = "ReadDocument" => ~TerminatorAt(ops[i].at)
        /\ (ops[i].op = "Peek" /\ TerminatorAt(ops[i].at)) =>
            /\ i = Len(ops)
            /\ pc = "Done"
            /\ Cursor = ops[i].at
    /\ (pc = "Done" /\ ~report.CollectionMetadata.nil) =>
        /\ Cursor = 4 + BsonSize(archive.header) + SumSizes(archive.docs)
        /\ TerminatorAt(Cursor)
        /\ consumed <= Len(stream)
        /\ archive.docs = <<>> => report.CollectionMetadata = [nil |-> FALSE, items |-> <<>>]
    /\ pc = "ReadingMetadata" =>
        Cursor = 4 + BsonSize(archive.header)
                     + SumSizes(SubSeq(archive.docs, 1, Len(mdDocs)))

C5_Witness ==
    /\ pc = "Done"
    /\ ~report.CollectionMetadata.nil
    /\ Len(archive.docs) = 2
    /\ Len(stream) = Cursor + 4 + Len(TrailingData)

(***************************************************************************)
(* C6: the walker's position moves only from ExpectMagic to ExpectHeader   *)
(* to ReadingMetadata to Done; the header is read once, second of all      *)
(* reads; Done is entered only from ReadingMetadata with the terminator    *)
(* under the peek and no error; every other move is to Failed with an      *)
(* error.                                                                  *)
(***************************************************************************)
C6_StateOrder ==
    [][pc' # pc =>
        \/ pc = "ExpectMagic" /\ pc' = "ExpectHeader" /\ err' = Nil
        \/ /\ pc = "ExpectHeader" /\ pc' = "ReadingMetadata" /\ err' = Nil
           /\ ops' = <<Op("ReadFull", 0), Op("ReadDocument", 4)>>
        \/ /\ pc = "ReadingMetadata" /\ pc' = "Done" /\ err' = Nil
           /\ ops' = Append(ops, Op("Peek", Cursor))
           /\ TerminatorAt(Cursor)
        \/ pc' = "Failed" /\ err' # Nil]_vars

(***************************************************************************)
(* C7: at every point of the walk the k-th entry of the list comes from    *)
(* the k-th metadata document of the stream (same keys in the same order,  *)
(* every field but metadata as read), and the k-th document read is read   *)
(* at the k-th document's offset.                                          *)
(***************************************************************************)
DerivesFrom(out, src) ==
    /\ Len(out) = Len(src)
    /\ \A i \in 1..Len(src) :
        /\ out[i].Key = src[i].Key
        /\ src[i].Key # "metadata" => out[i] = src[i]

IsReadDocument(o) == o.op = "ReadDocument"

MetadataReads == SelectSeq(SubSeq(ops, 3, Len(ops)), IsReadDocument)

C7_StreamOrder ==
    /\ Len(mdDocs) <= Len(archive.docs)
    /\ \A k \in 1..Len(mdDocs) : DerivesFrom(mdDocs[k], archive.docs[k])
    /\ Len(Items) <= Len(mdDocs)
    /\ \A k \in 1..Len(Items) : DerivesFrom(Items[k], archive.docs[k])
    /\ Len(MetadataReads) <= Len(archive.docs)
    /\ \A k \in 1..Len(MetadataReads) : MetadataReads[k].at = DocStart(k)

C7_Witness ==
    /\ pc = "Done"
    /\ Len(Items) = 2
    /\ archive.docs[1] # archive.docs[2]
    /\ Len(MetadataReads) = 2

(***************************************************************************)
(* C10 as claimed: a nested document of a special-key shape in the header  *)
(* or a metadata document is in the report as the typed value, so the      *)
(* report holds no document of that shape.                                 *)
(***************************************************************************)
IsSpecialShape(val) ==
    /\ val.t = "document"
    /\ \/ Cardinality(Keys(val.v)) = 1 /\ Keys(val.v) \subseteq SingleFieldKeys
       \/ Keys(val.v) \in {{"$code", "$scope"}, {"$regex", "$options"},
                           {"$binary", "$type"}}

SpecialFields(d) == {i \in 1..Len(d) : IsSpecialShape(d[i].Value)}

C8_NumeralValue(s) ==
    CASE s \in {"1500", "0x5dc", "02734"} -> 1500
      [] s \in {"-1500", "-0x5DC"} -> -1500
      [] s = "1000" -> 1000
      [] s = "-1" -> -1
      [] OTHER -> 0

C8_Numerals == {"0", "1000", "1500", "-1", "-1500", "0x5dc", "-0x5DC", "02734"}

C8_Payload ==
    IF decIn.t = "map" THEN decIn.v["$date"] ELSE decIn.v[1].Value

C8_Nested ==
    IF C8_Payload.t = "map" THEN C8_Payload.v["$numberLong"]
    ELSE C8_Payload.v[1].Value

C8_Case ==
    /\ decPc = "done"
    /\ \/ decIn.t = "map" /\ DOMAIN decIn.v = {"$date"}
       \/ decIn.t = "document" /\ Len(decIn.v) = 1 /\ decIn.v[1].Key = "$date"
    /\ \/ C8_Payload.t \in {"int32", "int64"}
       \/ /\ \/ C8_Payload.t = "map" /\ DOMAIN C8_Payload.v = {"$numberLong"}
             \/ /\ C8_Payload.t = "document" /\ Len(C8_Payload.v) = 1
                /\ C8_Payload.v[1].Key = "$numberLong"
          /\ C8_Nested.t = "string"
          /\ C8_Nested.v \in C8_Numerals

C8_Millis ==
    IF C8_Payload.t \in {"int32", "int64"} THEN C8_Payload.v
    ELSE C8_NumeralValue(C8_Nested.v)

C8_Abs(n) == IF n < 0 THEN 0 - n ELSE n

C8_Sign(n) == IF n < 0 THEN -1 ELSE 1

C8_DateTruncates ==
    C8_Case =>
        LET n == C8_Millis
            at == Instant(decOut.val)
        IN /\ decOut.err = Nil
           /\ decOut.val.t = "time"
           /\ decOut.val.v.sec = C8_Sign(n) * (C8_Abs(n) \div 1000)
           /\ decOut.val.v.nsec = C8_Sign(n) * (C8_Abs(n) % 1000) * 1000000
           /\ n = 0 => decOut.val.v = [sec |-> 0, nsec |-> 0]
           /\ n = 1000 => decOut.val.v = [sec |-> 1, nsec |-> 0]
           /\ n = 1500 => decOut.val.v = [sec |-> 1, nsec |-> 500000000]
           /\ n = -1 => decOut.val.v = [sec |-> 0, nsec |-> -1000000]
           /\ n = -1500 => decOut.val.v = [sec |-> -1, nsec |-> -500000000]
           /\ at.nsec >= 0 /\ at.nsec < 1000000000 /\ at.nsec % 1000000 = 0
           /\ at.sec * 1000 + (at.nsec \div 1000000) = n

C8_Witness ==
    /\ C8_Case
    /\ decIn = One("$date", One("$numberLong", Str("-0x5DC")))
    /\ decOut.val.v = [sec |-> -1, nsec |-> -500000000]

(***************************************************************************)
(* C9 as claimed: a document of exactly two keys that are not one of the   *)
(* pairs {$code, $scope}, {$regex, $options}, {$binary, $type} gets no     *)
(* error for its shape: it is decoded as an ordinary document, field by    *)
(* field, and fails only where one of its values fails.                    *)
(***************************************************************************)
C9_Keys == IF decIn.t = "map" THEN DOMAIN decIn.v ELSE Keys(decIn.v)

C9_Values ==
    IF decIn.t = "map" THEN {decIn.v[k] : k \in DOMAIN decIn.v}
    ELSE {decIn.v[i].Value : i \in 1..Len(decIn.v)}

C9_Case ==
    /\ decPc = "done"
    /\ decIn.t \in {"document", "map"}
    /\ Cardinality(C9_Keys) = 2

C9_Recognized ==
    C9_Keys \in {{"$code", "$scope"}, {"$regex", "$options"}, {"$binary", "$type"}}

C9_AValueFails ==
    \E val \in C9_Values : ParseLegacyExtJSONValue(val).err # Nil

C9_OutKeys ==
    IF decOut.val.t = "map" THEN DOMAIN decOut.val.v ELSE Keys(decOut.val.v)

C9_Ordinary ==
    /\ decOut.err # Nil <=> C9_AValueFails
    /\ decOut.err = Nil =>
        /\ decOut.val.t = decIn.t
        /\ C9_OutKeys = C9_Keys

C9_UnrecognizedPairIsOrdinary ==
    (C9_Case /\ ~C9_Recognized) => C9_Ordinary

(***************************************************************************)
(* C9 as amended: a document of exactly two distinct keys, neither of them *)
(* $code, $regex or $binary, is decoded as an ordinary document; with one  *)
(* of these three keys and the other key not its co-field the decoder      *)
(* returns an error.                                                       *)
(***************************************************************************)
C9_TwoKeyShapes ==
    C9_Case =>
        /\ C9_Keys \cap {"$code", "$regex", "$binary"} = {} => C9_Ordinary
        /\ (C9_Keys \cap {"$code", "$regex", "$binary"} # {} /\ ~C9_Recognized) =>
            decOut.err # Nil

C9_Witness ==
    /\ C9_Case
    /\ decIn = Doc(<<E("$code", Str("x")), E("a", Int32(1))>>)
    /\ decOut.err = NewError("expected $scope field with $code field")

(***************************************************************************)
(* C11: decoding never modifies the document it is given:  neither         *)
(* ConvertLegacyExtJSONDocumentToBSON nor GetExtendedBsonD nor             *)
(* ParseSpecialKeys changes its argument, and after a failed decode the    *)
(* argument is exactly as it was, with no converted value in it.           *)
(***************************************************************************)
C11_DecodingIsPure == [][decIn' = decIn]_vars

\* C11 as amended: GetExtendedBsonD, and ParseSpecialKeys given a bson.D,
\* leave the document as it was; ConvertLegacyExtJSONDocumentToBSON converts
\* the map in place and returns the error alone: with no error every field
\* holds its converted value, and with an error (that of a field that
\* fails) every failing field is as it was and every other field is as it
\* was or already converted.
C11_Fails(jsonValue) == convertField(jsonValue).err # Nil

C11_ConvertsInPlace ==
    [][/\ decPc' = "extended" => decIn' = decIn
       /\ (decPc' = "done" /\ decIn.t = "document") => decIn' = decIn
       /\ decPc' = "converted" =>
            LET before == decIn.v
                after == decIn'.v
                e == decOut'.err
            IN /\ decIn'.t = "map"
               /\ decOut'.val = Null
               /\ DOMAIN after = DOMAIN before
               /\ e = Nil <=> \A k \in DOMAIN before : ~C11_Fails(before[k])
               /\ e = Nil =>
                    \A k \in DOMAIN before : after[k] = convertField(before[k]).val
               /\ e # Nil =>
                    /\ \E k \in DOMAIN before : convertField(before[k]).err = e
                    /\ \A k \in DOMAIN before :
                          IF C11_Fails(before[k]) THEN after[k] = before[k]
                          ELSE after[k] \in {before[k], convertField(before[k]).val}
      ]_vars

\* a failed conversion that has left a converted date beside the field that
\* failed
C11_Witness ==
    /\ decPc = "converted"
    /\ decOut.err = NewError("invalid ObjectID hex")
    /\ decIn = MapVal(("a" :> dateFromMillis(1500)) @@ ("b" :> One("$oid", Str("x"))))

(***************************************************************************)
(* C12: the walk over a finite stream ends in Done or Failed, each step of *)
(* the metadata loop reading a whole document of at least 5 bytes,         *)
(* stopping at the terminator or failing; and when the stream ends, with   *)
(* fewer than 4 bytes left to peek, after the header or after a metadata   *)
(* document and without a terminator, the walk is never in Done and ends   *)
(* in Failed with the metadata phase's error and the empty report.         *)
(***************************************************************************)
\* a step of the metadata loop that stays in the loop has moved the cursor
\* on by a document, within the stream
C12_LoopProgress ==
    [][pc = "ReadingMetadata" =>
        \/ pc' = "ReadingMetadata" /\ Cursor' >= Cursor + MinDocLen
                                   /\ Cursor' <= Len(stream)
        \/ pc' = "Done"
        \/ pc' = "Failed"]_vars

\* the stream ends k - 1 metadata documents after the header, with 0 to 3
\* bytes behind them
C12_EndsAfter(k) ==
    /\ MagicMatches
    /\ archive.cut >= DocStart(k)
    /\ archive.cut < DocStart(k) + 4

C12_Case == \E k \in 1..(Len(archive.docs) + 1) : C12_EndsAfter(k)

C12_TruncatedStreamFails ==
    C12_Case =>
        /\ pc # "Done"
        /\ pc = "Failed" =>
            /\ err # Nil
            /\ Head(err) = "failed to read collection metadata"
            /\ report = EmptyReport

====
